---- MODULE Spec2Model ----
(***************************************************************************)
(* RivetBench: a registry of endpoint descriptors and the three transport  *)
(* adapters (REST route POST /rpc/:name, MCP tool, CLI `call`) that        *)
(* dispatch an invocation to a descriptor's handler.                       *)
(*                                                                         *)
(* JSON values are records [t |-> <type tag>, v |-> <payload>]; an object's*)
(* payload is a record of its fields. JavaScript's `undefined` is JUndef.  *)
(***************************************************************************)
EXTENDS Integers, Sequences, FiniteSets, TLC

VARIABLES
    endpoints,        \* InMemoryEndpointRegistry.endpoints (Map, insertion order)
    listeners,        \* InMemoryEndpointRegistry.listeners (Set, insertion order)
    enricher,         \* InMemoryEndpointRegistry.enricher
    internalVersion,  \* InMemoryEndpointRegistry.internalVersion
    cachedEtag,       \* InMemoryEndpointRegistry.cachedEtag
    subs,             \* the unsubscribe closures onToolsChanged has returned:
                      \* each one's listener and whether it has been called
    lastThrown,       \* what the last registry call threw (Undefined: nothing)
    notified,         \* listeners invoked by the last registry call, in order,
                      \* each with the version and etag the registry shows it
    enriched,         \* what the last registry call returned, when it was
                      \* listEnriched: the context passed and the array
    mcpTools,         \* whether startMcpServer has run, and the tools it added
    request,          \* the invocation under test: name and raw input
    calls,            \* per surface: the invocation's progress and response
    caught,           \* a thrown value on its way through toRivetBenchError
    requestIds,       \* Fastify's request ids: how many POST /rpc requests came
                      \* in, how many ids genReqId made, and the ids the route
                      \* handed to handlers, in order
    toolsReply        \* the last reply of GET /tools

regVars == <<endpoints, listeners, enricher, internalVersion, cachedEtag,
             subs, lastThrown, notified, enriched>>
callVars == <<mcpTools, request, calls>>
httpVars == <<requestIds, toolsReply>>
vars == <<endpoints, listeners, enricher, internalVersion, cachedEtag,
          subs, lastThrown, notified, enriched, mcpTools, request, calls, caught,
          requestIds, toolsReply>>

\* JavaScript `undefined` where a string is expected.
Undefined == "<undefined>"

----------------------------------------------------------------------------
(* JSON values *)

JUndef == [t |-> "undefined", v |-> Undefined]
JNull == [t |-> "null", v |-> "null"]
JStr(s) == [t |-> "string", v |-> s]
JNum(s) == [t |-> "number", v |-> s]
JBool(s) == [t |-> "boolean", v |-> s]
JObj(r) == [t |-> "object", v |-> r]

JArr(q) == [t |-> "array", v |-> q]

\* The fields of {}.
EmptyObject == [k \in {} |-> JUndef]

\* JSON.stringify followed by the reader's JSON.parse: a field whose value is
\* undefined is dropped from an object, an undefined array element becomes null.
RECURSIVE JsonWire(_)
JsonWire(j) ==
    CASE j.t = "object" ->
           JObj([k \in {f \in DOMAIN j.v : j.v[f].t # "undefined"} |-> JsonWire(j.v[k])])
      [] j.t = "array" ->
           JArr([i \in DOMAIN j.v |->
                   IF j.v[i].t = "undefined" THEN JNull ELSE JsonWire(j.v[i])])
      [] OTHER -> j

----------------------------------------------------------------------------
(* src/core/errors.ts *)

\* The stack trace V8 attaches to every Error object.
StackTrace == "at handler (endpoint.ts:1:1)"

\* An Error object. oid is the object's identity: 0 for an object the
\* adapters create, positive for an object a handler created.
ErrorObject(oid, isRivet, isZod, name, message, statusCode, code, details, issues) ==
    [oid |-> oid, isError |-> TRUE, isRivet |-> isRivet, isZod |-> isZod,
     name |-> name, message |-> message, statusCode |-> statusCode,
     code |-> code, details |-> details, issues |-> issues,
     stack |-> StackTrace, value |-> JUndef]

\* A thrown value that is no Error object (throw 'boom', throw undefined).
NonError(value) ==
    [oid |-> 0, isError |-> FALSE, isRivet |-> FALSE, isZod |-> FALSE,
     name |-> Undefined, message |-> Undefined, statusCode |-> 0,
     code |-> Undefined, details |-> JUndef, issues |-> JUndef,
     stack |-> Undefined, value |-> value]

\* new RivetBenchError(message, statusCode = 500, code, details), cls the
\* constructor's name; statusCode 0 stands for an omitted argument.
RivetBenchError(oid, cls, message, statusCode, code, details) ==
    ErrorObject(oid, TRUE, FALSE, cls, message,
                IF statusCode = 0 THEN 500 ELSE statusCode,
                IF code \in {Undefined, ""} THEN cls ELSE code,
                details, JUndef)

ToJSON(e) ==
    IF e.details # JUndef
    THEN JObj([error |-> JObj([name |-> JStr(e.name), code |-> JStr(e.code),
                               message |-> JStr(e.message), details |-> e.details])])
    ELSE JObj([error |-> JObj([name |-> JStr(e.name), code |-> JStr(e.code),
                               message |-> JStr(e.message)])])

ValidationError(oid, message, details) ==
    RivetBenchError(oid, "ValidationError", message, 400, "VALIDATION_ERROR", details)

EndpointNotFoundError(oid, endpointName) ==
    RivetBenchError(oid, "EndpointNotFoundError",
                    "Endpoint '" \o endpointName \o "' not found", 404,
                    "ENDPOINT_NOT_FOUND", JObj([endpointName |-> JStr(endpointName)]))

InternalServerError(oid, message, details) ==
    RivetBenchError(oid, "InternalServerError",
                    IF message = Undefined THEN "An internal server error occurred"
                                           ELSE message,
                    500, "INTERNAL_SERVER_ERROR", details)

ConfigurationError(oid, message, details) ==
    RivetBenchError(oid, "ConfigurationError", message, 500, "CONFIGURATION_ERROR", details)

isRivetBenchError(error) == error.isRivet

\* A variant of toRivetBenchError without the isRivetBenchError test: it wraps
\* typed errors too.
toRivetBenchErrorAlwaysWraps(error) ==
    IF error.isError
    THEN InternalServerError(0, error.message,
                             JObj([originalError |-> JStr(error.name),
                                   stack |-> JStr(error.stack)]))
    ELSE InternalServerError(0, "An unknown error occurred",
                             JObj([error |-> error.value]))

toRivetBenchError(error) ==
    IF isRivetBenchError(error) THEN error
    ELSE IF error.isError
    THEN InternalServerError(0, error.message,
                             JObj([originalError |-> JStr(error.name),
                                   stack |-> JStr(error.stack)]))
    ELSE InternalServerError(0, "An unknown error occurred",
                             JObj([error |-> error.value]))

----------------------------------------------------------------------------
(* zod object schemas, as far as the endpoints of src/endpoints use them:   *)
(* z.object({ key: z.string().min(n, msg) }). A schema is the sequence of   *)
(* its fields, in declaration order.                                        *)

StringField(key, min, msg) == [key |-> key, min |-> min, msg |-> msg]

ZodIssue(code, path, message) ==
    JObj([code |-> JStr(code), path |-> JStr(path), message |-> JStr(message)])

\* The issue a field raises on the object obj, JUndef when it raises none.
FieldIssue(f, obj) ==
    IF f.key \notin DOMAIN obj.v \/ obj.v[f.key].t = "undefined"
    THEN ZodIssue("invalid_type", f.key, "Required")
    ELSE IF obj.v[f.key].t # "string"
    THEN ZodIssue("invalid_type", f.key, "Expected string, received " \o obj.v[f.key].t)
    ELSE IF Len(obj.v[f.key].v) < f.min
    THEN ZodIssue("too_small", f.key, f.msg)
    ELSE JUndef

\* ZodError.issues for the value raw, in field order; empty when raw conforms.
SchemaIssues(schema, raw) ==
    IF raw.t # "object"
    THEN <<ZodIssue("invalid_type", "", "Expected object, received " \o raw.t)>>
    ELSE SelectSeq([i \in 1..Len(schema) |-> FieldIssue(schema[i], raw)],
                   LAMBDA x : x # JUndef)

\* The messages of the issues at one path, in order.
MessagesAt(issues, path) ==
    LET at == SelectSeq(issues, LAMBDA x : x.v.path.v = path)
    IN  JArr([i \in 1..Len(at) |-> at[i].v.message])

\* ZodError.format(): { _errors: [...], <key>: { _errors: [...] } }.
ZodFormat(issues) ==
    LET paths == {issues[i].v.path.v : i \in 1..Len(issues)} \ {""}
    IN  JObj([k \in paths \cup {"_errors"} |->
                IF k = "_errors" THEN MessagesAt(issues, "")
                ELSE JObj([_errors |-> MessagesAt(issues, k)])])

ZodError(oid, issues) ==
    ErrorObject(oid, FALSE, TRUE, "ZodError", "<zod issues>", 0, Undefined,
                JUndef, JArr(issues))

\* schema.safeParse(raw): on success data holds the declared keys only (zod
\* strips unknown keys of an object).
SafeParse(schema, raw) ==
    LET issues == SchemaIssues(schema, raw)
        keys == {schema[i].key : i \in 1..Len(schema)}
    IN  IF issues = <<>>
        THEN [success |-> TRUE, data |-> JObj([k \in keys |-> raw.v[k]]),
              error |-> NonError(JUndef)]
        ELSE [success |-> FALSE, data |-> JUndef, error |-> ZodError(0, issues)]

----------------------------------------------------------------------------
(* Endpoint descriptors: src/core/endpoint.ts, src/endpoints/echo.ts *)

EchoInput == <<StringField("message", 1, "Message cannot be empty")>>
EchoOutput == <<StringField("echoed", 0, "")>>
UppercaseInput == <<StringField("text", 0, "")>>
UppercaseOutput == <<StringField("result", 0, "")>>

\* What a handler function does when it is called. "declared" is the handler
\* the repository ships for the endpoint; the others are handlers an endpoint
\* author may register instead.
HandlerKinds ==
    {"declared", "returnsExtraKey", "returnsInvalid", "throwsValidation",
     "throwsInternal", "throwsBase", "throwsZod", "throwsError",
     "throwsHttpError", "throwsString"}

EchoEndpoint(handler) ==
    [name |-> "echo", summary |-> "Echo a message back to the caller",
     description |-> "Takes a message string and returns it in the echoed field. Useful for testing the RPC workflow.",
     input |-> EchoInput, output |-> EchoOutput, handler |-> handler]

UppercaseEndpoint ==
    [name |-> "uppercase", summary |-> "Convert text to uppercase",
     description |-> "Takes a text string and returns it in uppercase. Perfect for testing raw output mode.",
     input |-> UppercaseInput, output |-> UppercaseOutput, handler |-> "declared"]

\* The descriptors of the registry's tests: no description, empty schemas, a
\* handler that returns {}.
TestEndpoint(summary) ==
    [name |-> "test", summary |-> summary, description |-> Undefined,
     input |-> <<>>, output |-> <<>>, handler |-> "declared"]

\* The descriptors an author may pass to register.
Descriptors == {EchoEndpoint(h) : h \in HandlerKinds} \cup {UppercaseEndpoint}

\* get(name) on an absent name returns undefined.
NoEndpoint ==
    [name |-> Undefined, summary |-> Undefined, description |-> Undefined,
     input |-> <<>>, output |-> <<>>, handler |-> Undefined]

\* String.prototype.toUpperCase on the strings the model uses.
ToUpperCase(str) ==
    CASE str = "abc" -> "ABC"
      [] str = "hi" -> "HI"
      [] str = "Hello" -> "HELLO"
      [] OTHER -> str

\* The value the shipped handler of an endpoint returns for a validated input.
DeclaredResult(endpoint, input) ==
    CASE endpoint.name = "echo" -> JObj([echoed |-> input.v.message])
      [] endpoint.name = "uppercase" -> JObj([result |-> JStr(ToUpperCase(input.v.text.v))])
      [] OTHER -> JObj(EmptyObject)

\* The values a handler may throw; each is an object the handler created.
HandlerThrows(kind) ==
    CASE kind = "throwsValidation" ->
           ValidationError(1, "Unsupported message", JObj([field |-> JStr("message")]))
      [] kind = "throwsInternal" -> InternalServerError(1, Undefined, JUndef)
      [] kind = "throwsBase" ->
           RivetBenchError(1, "RivetBenchError", "Error message", 418, "ERROR_CODE",
                           JObj([hint |-> JStr("teapot")]))
      [] kind = "throwsZod" ->
           ZodError(1, <<ZodIssue("invalid_type", "inner", "Required")>>)
      [] kind = "throwsError" ->
           ErrorObject(1, FALSE, FALSE, "Error", "boom", 0, Undefined, JUndef, JUndef)
      [] kind = "throwsHttpError" ->
           ErrorObject(1, FALSE, FALSE, "ServiceUnavailableError", "try later", 503,
                       Undefined, JUndef, JUndef)
      [] kind = "throwsString" -> NonError(JStr("boom"))

\* await endpoint.handler({ input, config }): the settled outcome.
HandlerOutcome(endpoint, input) ==
    CASE endpoint.handler = "declared" ->
           [threw |-> FALSE, value |-> DeclaredResult(endpoint, input),
            error |-> NonError(JUndef)]
      [] endpoint.handler = "returnsExtraKey" ->
           LET r == DeclaredResult(endpoint, input)
           IN  [threw |-> FALSE,
                value |-> JObj([k \in DOMAIN r.v \cup {"debug"} |->
                                  IF k = "debug" THEN JStr("trace") ELSE r.v[k]]),
                error |-> NonError(JUndef)]
      [] endpoint.handler = "returnsInvalid" ->
           [threw |-> FALSE, value |-> JObj([unexpected |-> JNum("42")]),
            error |-> NonError(JUndef)]
      [] OTHER ->
           [threw |-> TRUE, value |-> JUndef, error |-> HandlerThrows(endpoint.handler)]

----------------------------------------------------------------------------
(* InMemoryEndpointRegistry *)

\* Bounds of the model.
MaxVersion == 1
MaxSubs == 2

\* The listener functions and enricher functions a caller may pass.
ListenerIds == {"L1", "L2"}
EnricherIds == {"hideEcho", "annotate", "overwrite"}

\* The contexts a caller may pass to listEnriched.
Contexts ==
    {[transportType |-> "rest", sessionId |-> Undefined],
     [transportType |-> "mcp", sessionId |-> "sess-1"]}

\* No listEnriched result.
NoListing ==
    [context |-> [transportType |-> Undefined, sessionId |-> Undefined],
     tools |-> <<>>]

\* The descriptors the registry-only specification registers.
RegistryDescriptors ==
    {EchoEndpoint("declared"), TestEndpoint("Test 1")}

list == endpoints

has(name) == \E i \in 1..Len(endpoints) : endpoints[i].name = name

get(name) ==
    IF has(name)
    THEN endpoints[CHOOSE i \in 1..Len(endpoints) : endpoints[i].name = name]
    ELSE NoEndpoint

\* `${e.name}:${e.summary ?? ''}:${e.description ?? ''}`
EtagPart(e) ==
    e.name \o ":" \o (IF e.summary = Undefined THEN "" ELSE e.summary)
           \o ":" \o (IF e.description = Undefined THEN "" ELSE e.description)

\* Array.prototype.join
RECURSIVE Join(_, _)
Join(parts, sep) ==
    IF parts = <<>> THEN ""
    ELSE IF Len(parts) = 1 THEN parts[1]
    ELSE parts[1] \o sep \o Join(Tail(parts), sep)

\* The first 16 hex digits of the payload's SHA-256 digest. The digest is
\* kept symbolic: distinct payloads have distinct digests.
Sha256Hex16(payload) == "sha256:" \o payload

computeEtag ==
    LET parts == [i \in 1..Len(endpoints) |-> EtagPart(endpoints[i])]
        payload == "v" \o ToString(internalVersion) \o ":" \o Join(parts, "|")
    IN  "\"" \o Sha256Hex16(payload) \o "\""

DuplicateMessage(name) == "Endpoint with name \"" \o name \o "\" already registered"

\* A variant of register that puts the new descriptor first.
registerPrepending(endpoint) ==
    IF has(endpoint.name)
    THEN /\ lastThrown' = DuplicateMessage(endpoint.name)
         /\ enriched' = NoListing
         /\ notified' = <<>>
         /\ UNCHANGED <<endpoints, listeners, enricher, internalVersion, cachedEtag, subs>>
    ELSE /\ endpoints' = <<endpoint>> \o endpoints
         /\ cachedEtag' = Undefined
         /\ lastThrown' = Undefined
         /\ enriched' = NoListing
         /\ notified' = <<>>
         /\ UNCHANGED <<listeners, enricher, internalVersion, subs>>

\* A variant of register that counts a registration as a change of version.
registerIncrementingVersion(endpoint) ==
    IF has(endpoint.name)
    THEN /\ lastThrown' = DuplicateMessage(endpoint.name)
         /\ enriched' = NoListing
         /\ notified' = <<>>
         /\ UNCHANGED <<endpoints, listeners, enricher, internalVersion, cachedEtag, subs>>
    ELSE /\ endpoints' = Append(endpoints, endpoint)
         /\ internalVersion' = internalVersion + 1
         /\ cachedEtag' = Undefined
         /\ lastThrown' = Undefined
         /\ enriched' = NoListing
         /\ notified' = <<>>
         /\ UNCHANGED <<listeners, enricher, subs>>

\* A variant of register that leaves the cached ETag in place.
registerKeepingEtag(endpoint) ==
    IF has(endpoint.name)
    THEN /\ lastThrown' = DuplicateMessage(endpoint.name)
         /\ enriched' = NoListing
         /\ notified' = <<>>
         /\ UNCHANGED <<endpoints, listeners, enricher, internalVersion, cachedEtag, subs>>
    ELSE /\ endpoints' = Append(endpoints, endpoint)
         /\ lastThrown' = Undefined
         /\ enriched' = NoListing
         /\ notified' = <<>>
         /\ UNCHANGED <<listeners, enricher, internalVersion, cachedEtag, subs>>

\* A variant of register without the duplicate test: Map.set replaces the
\* descriptor stored under the name, and the ETag cache is invalidated.
registerOverwriting(endpoint) ==
    /\ endpoints' = IF has(endpoint.name)
                    THEN [i \in 1..Len(endpoints) |->
                            IF endpoints[i].name = endpoint.name THEN endpoint
                            ELSE endpoints[i]]
                    ELSE Append(endpoints, endpoint)
    /\ cachedEtag' = Undefined
    /\ lastThrown' = Undefined
    /\ enriched' = NoListing
    /\ notified' = <<>>
    /\ UNCHANGED <<listeners, enricher, internalVersion, subs>>

register(endpoint) ==
    IF has(endpoint.name)
    THEN /\ lastThrown' = DuplicateMessage(endpoint.name)
         /\ enriched' = NoListing
         /\ notified' = <<>>
         /\ UNCHANGED <<endpoints, listeners, enricher, internalVersion, cachedEtag, subs>>
    ELSE /\ endpoints' = Append(endpoints, endpoint)
         /\ cachedEtag' = Undefined
         /\ lastThrown' = Undefined
         /\ enriched' = NoListing
         /\ notified' = <<>>
         /\ UNCHANGED <<listeners, enricher, internalVersion, subs>>

\* Set.prototype.add keeps one entry per function, at its first position.
SetAdd(set, x) ==
    IF \E i \in 1..Len(set) : set[i] = x THEN set ELSE Append(set, x)

\* Set.prototype.delete
SetDelete(set, x) == SelectSeq(set, LAMBDA y : y # x)

\* What a listener function does to the registry's listener set when it is
\* called: L1 and L2 do nothing, addsL2 is () => { registry.onToolsChanged(L2) }
\* and removesL2 is () => { unsubscribeL2() }.
ListenerEffect(listener, set) ==
    CASE listener = "addsL2" -> SetAdd(set, "L2")
      [] listener = "removesL2" -> SetDelete(set, "L2")
      [] OTHER -> set

PositionOf(set, x) == CHOOSE i \in 1..Len(set) : set[i] = x

\* for (const listener of this.listeners) listener(): the Set iterator walks
\* the live set, so it reaches an entry added behind its position and never
\* reaches one deleted ahead of it.
RECURSIVE forEachListener(_, _, _)
forEachListener(set, index, invoked) ==
    IF index > Len(set)
    THEN [listeners |-> set, invoked |-> invoked]
    ELSE LET listener == set[index]
             after == ListenerEffect(listener, set)
         IN  forEachListener(after, PositionOf(after, listener) + 1,
                             Append(invoked, listener))

\* A listener call: the listener and what registry.version and registry.etag
\* show while it runs.
Invocation(listener, version, tag) ==
    [listener |-> listener, version |-> version, etag |-> tag]

\* A variant of signalToolsChanged that leaves the cached ETag in place.
signalToolsChangedKeepingEtag ==
    /\ internalVersion < MaxVersion
    /\ internalVersion' = internalVersion + 1
    /\ UNCHANGED <<endpoints, listeners, enricher, subs, cachedEtag>>
    /\ notified' = [i \in 1..Len(listeners) |->
                       Invocation(listeners[i], internalVersion',
                                  IF cachedEtag' = Undefined
                                  THEN computeEtag' ELSE cachedEtag')]
    /\ lastThrown' = Undefined
    /\ enriched' = NoListing

signalToolsChanged ==
    /\ internalVersion < MaxVersion
    /\ internalVersion' = internalVersion + 1
    /\ cachedEtag' = Undefined
    /\ UNCHANGED <<endpoints, enricher, subs>>
    /\ LET run == forEachListener(listeners, 1, <<>>)
       IN  /\ listeners' = run.listeners
           /\ notified' = [i \in 1..Len(run.invoked) |->
                              Invocation(run.invoked[i], internalVersion', computeEtag')]
    /\ lastThrown' = Undefined
    /\ enriched' = NoListing

\* A variant of setToolEnricher that keeps an enricher that is already set.
setToolEnricherKeepingFirst(fn) ==
    /\ enricher' = IF enricher # Undefined /\ fn # Undefined THEN enricher ELSE fn
    /\ lastThrown' = Undefined
    /\ enriched' = NoListing
    /\ notified' = <<>>
    /\ UNCHANGED <<endpoints, listeners, internalVersion, cachedEtag, subs>>

setToolEnricher(fn) ==
    /\ enricher' = fn
    /\ lastThrown' = Undefined
    /\ enriched' = NoListing
    /\ notified' = <<>>
    /\ UNCHANGED <<endpoints, listeners, internalVersion, cachedEtag, subs>>

\* The array an enricher function returns for the array `tools` it is handed:
\*   hideEcho   (tools, ctx) => ctx.transportType === 'rest'
\*                                ? tools.filter(t => t.name !== 'echo') : tools
\*   annotate   (tools) => tools.map(t => ({ ...t, description: `enriched: ${t.description}` }))
\*   overwrite  (tools) => { tools.forEach(t => { t.summary = 'overwritten' }); return tools }
EnricherReturns(fn, tools, context) ==
    CASE fn = "hideEcho" ->
           IF context.transportType = "rest"
           THEN SelectSeq(tools, LAMBDA t : t.name # "echo")
           ELSE tools
      [] fn = "annotate" ->
           [i \in 1..Len(tools) |->
               [tools[i] EXCEPT !.description =
                   "enriched: " \o (IF @ = Undefined THEN "undefined" ELSE @)]]
      [] fn = "overwrite" ->
           [i \in 1..Len(tools) |-> [tools[i] EXCEPT !.summary = "overwritten"]]

\* The descriptor objects that the elements of `tools` refer to, after the
\* enricher function has run: an assignment to a field of an element is an
\* assignment to the object, changes of the array itself are not.
EnricherLeaves(fn, tools) ==
    IF fn = "overwrite"
    THEN [i \in 1..Len(tools) |-> [tools[i] EXCEPT !.summary = "overwritten"]]
    ELSE tools

\* list() is Array.from(this.endpoints.values()): a new array of the stored
\* descriptor objects.
listEnriched(context) ==
    /\ enriched' = [context |-> context,
                    tools |-> IF enricher = Undefined THEN list
                              ELSE EnricherReturns(enricher, list, context)]
    /\ endpoints' = IF enricher = Undefined THEN endpoints
                    ELSE EnricherLeaves(enricher, list)
    /\ lastThrown' = Undefined
    /\ notified' = <<>>
    /\ UNCHANGED <<listeners, enricher, internalVersion, cachedEtag, subs>>

onToolsChanged(listener) ==
    /\ Len(subs) < MaxSubs
    /\ listeners' = SetAdd(listeners, listener)
    /\ subs' = Append(subs, [listener |-> listener, called |-> FALSE])
    /\ lastThrown' = Undefined
    /\ enriched' = NoListing
    /\ notified' = <<>>
    /\ UNCHANGED <<endpoints, enricher, internalVersion, cachedEtag>>

\* Calling the closure that the i-th onToolsChanged call returned.
unsubscribe(i) ==
    /\ i \in 1..Len(subs)
    /\ listeners' = SetDelete(listeners, subs[i].listener)
    /\ subs' = [subs EXCEPT ![i].called = TRUE]
    /\ lastThrown' = Undefined
    /\ enriched' = NoListing
    /\ notified' = <<>>
    /\ UNCHANGED <<endpoints, enricher, internalVersion, cachedEtag>>

\* The etag getter fills the cache when it is empty.
etag == IF cachedEtag = Undefined THEN computeEtag ELSE cachedEtag

readEtag ==
    /\ cachedEtag' = etag
    /\ lastThrown' = Undefined
    /\ enriched' = NoListing
    /\ notified' = <<>>
    /\ UNCHANGED <<endpoints, listeners, enricher, internalVersion, subs>>

----------------------------------------------------------------------------
(* Invocations. One invocation under test, `request`, is sent to each       *)
(* surface; calls[s] is its progress on surface s. The part of a handler    *)
(* before its first await runs in the step that calls it; the handler       *)
(* settles in a later step.                                                 *)

Surfaces == {"rest", "mcp", "cli"}

\* The names a caller may ask for and the raw inputs it may send.
CallNames == {"echo", "uppercase", "missing"}
RawInputs ==
    {JObj([message |-> JStr("Hello")]),
     JObj([message |-> JStr("")]),
     JObj([message |-> JStr("hi"), extra |-> JStr("x")]),
     JObj([text |-> JStr("abc")]),
     JStr("Hello")}

\* What a surface hands back to its caller. REST: status and body. MCP:
\* isError and body (the parsed text of the tool content). CLI: exitCode and
\* the lines written to stdout and stderr. raised: the surface's function
\* (execute, run) threw or rejected instead of returning.
NoResponse ==
    [status |-> 0, isError |-> FALSE, exitCode |-> -1, body |-> JUndef,
     stdout |-> <<>>, stderr |-> <<>>, raised |-> FALSE]

\* argv: the arguments run was called with (CLI only).
IdleCall ==
    [pc |-> "idle", endpoint |-> NoEndpoint, handlerInput |-> JUndef,
     handlerCalls |-> 0, rawOutput |-> FALSE, steps |-> <<>>,
     response |-> NoResponse, argv |-> <<>>]

\* The synchronous part of an invocation ended by throwing `error`.
Thrown(error, endpoint, steps) ==
    [threw |-> TRUE, error |-> error, endpoint |-> endpoint, input |-> JUndef,
     steps |-> steps]

\* The synchronous part of an invocation called the handler with `input`.
HandlerCalled(endpoint, input, steps) ==
    [threw |-> FALSE, error |-> NonError(JUndef), endpoint |-> endpoint,
     input |-> input, steps |-> steps]

\* The rest of an invocation, once the handler has settled: the value the
\* surface returns or the error it throws.
Returned(value, steps) == [threw |-> FALSE, value |-> value, error |-> NonError(JUndef), steps |-> steps]
Raised(error, steps) == [threw |-> TRUE, value |-> JUndef, error |-> error, steps |-> steps]

----------------------------------------------------------------------------
(* src/core/error-handler.ts *)

\* The reply Fastify's own default handler sends when the error handler
\* itself throws: { statusCode, error, message }, status 500.
FastifyDefaultReply(message) ==
    [status |-> 500,
     body |-> JObj([statusCode |-> JNum("500"), error |-> JStr("Internal Server Error"),
                    message |-> JStr(message)])]

\* A variant of errorHandler that tests 'statusCode' in error before
\* isRivetBenchError: a typed error is answered without its details.
errorHandlerStatusCodeFirst(error) ==
    IF ~error.isError /\ error.value.t \in {"undefined", "null"}
    THEN FastifyDefaultReply("Cannot read properties of " \o error.value.t)
    ELSE IF error.isZod
    THEN LET validationError ==
                 ValidationError(0, "Request validation failed",
                                 JObj([issues |-> error.issues]))
         IN  [status |-> validationError.statusCode,
              body |-> JsonWire(ToJSON(validationError))]
    ELSE IF ~error.isError
    THEN FastifyDefaultReply("Cannot use 'in' operator to search for 'statusCode'")
    ELSE IF error.statusCode # 0
    THEN [status |-> error.statusCode,
          body |-> JsonWire(JObj([error |->
                     JObj([name |-> JStr(error.name),
                           code |-> JStr(IF error.code \in {Undefined, ""}
                                         THEN "FASTIFY_ERROR" ELSE error.code),
                           message |-> JStr(error.message)])]))]
    ELSE LET rivetError == toRivetBenchError(error)
         IN  [status |-> rivetError.statusCode, body |-> JsonWire(ToJSON(rivetError))]

errorHandler(error) ==
    IF ~error.isError /\ error.value.t \in {"undefined", "null"}
    THEN \* error.name on undefined or null
         FastifyDefaultReply("Cannot read properties of " \o error.value.t)
    ELSE IF error.isZod
    THEN LET validationError ==
                 ValidationError(0, "Request validation failed",
                                 JObj([issues |-> error.issues]))
         IN  [status |-> validationError.statusCode,
              body |-> JsonWire(ToJSON(validationError))]
    ELSE IF isRivetBenchError(error)
    THEN [status |-> error.statusCode, body |-> JsonWire(ToJSON(error))]
    ELSE IF ~error.isError
    THEN \* 'statusCode' in error, on a primitive
         FastifyDefaultReply("Cannot use 'in' operator to search for 'statusCode'")
    ELSE IF error.statusCode # 0
    THEN [status |-> error.statusCode,
          body |-> JsonWire(JObj([error |->
                     JObj([name |-> JStr(error.name),
                           code |-> JStr(IF error.code \in {Undefined, ""}
                                         THEN "FASTIFY_ERROR" ELSE error.code),
                           message |-> JStr(error.message)])]))]
    ELSE LET rivetError == toRivetBenchError(error)
         IN  [status |-> rivetError.statusCode, body |-> JsonWire(ToJSON(rivetError))]

----------------------------------------------------------------------------
(* src/server/rest.ts: fastify.post('/rpc/:name', ...) *)

\* A variant of the route handler that awaits the handler on the request body
\* before it parses the body.
restBeginHandlerFirst(endpointName, body) ==
    LET endpoint == get(endpointName)
    IN  IF endpoint = NoEndpoint
        THEN Thrown(EndpointNotFoundError(0, endpointName), NoEndpoint, <<"lookup">>)
        ELSE HandlerCalled(endpoint, body, <<"lookup", "handler">>)

\* The route handler up to its await.
restBegin(endpointName, body) ==
    LET endpoint == get(endpointName)
    IN  IF endpoint = NoEndpoint
        THEN Thrown(EndpointNotFoundError(0, endpointName), NoEndpoint, <<"lookup">>)
        ELSE LET parsedInput == SafeParse(endpoint.input, body)
             IN  IF ~parsedInput.success
                 THEN Thrown(ValidationError(0, "Invalid endpoint input",
                                 JObj([endpoint |-> JStr(endpointName),
                                       issues |-> ZodFormat(parsedInput.error.issues.v)])),
                             endpoint, <<"lookup", "validateInput">>)
                 ELSE HandlerCalled(endpoint, parsedInput.data,
                                    <<"lookup", "validateInput", "handler">>)

\* endpoint.output.parse(result): returns the parsed value or throws ZodError.
outputParse(endpoint, result, steps) ==
    LET parsed == SafeParse(endpoint.output, result)
    IN  IF parsed.success
        THEN Returned(parsed.data, Append(steps, "validateOutput"))
        ELSE Raised(parsed.error, Append(steps, "validateOutput"))

\* The route handler after its await.
restFinish(call) ==
    LET result == HandlerOutcome(call.endpoint, call.handlerInput)
    IN  IF result.threw
        THEN Raised(result.error, call.steps)
        ELSE outputParse(call.endpoint, result.value, call.steps)

\* Fastify's reply to a route handler that returned a value: 200 and the JSON.
restReply(value) ==
    [NoResponse EXCEPT !.status = 200, !.body = JsonWire(value)]

\* Fastify's reply to a route handler that threw: the error handler's.
restErrorReply(error) ==
    LET reply == errorHandler(error)
    IN  [NoResponse EXCEPT !.status = reply.status, !.body = reply.body]

RestReceive ==
    /\ calls["rest"].pc = "idle"
    /\ LET r == restBegin(request.name, request.raw)
       IN  calls' = [calls EXCEPT !["rest"] =
                IF r.threw
                THEN [@ EXCEPT !.pc = "done", !.endpoint = r.endpoint,
                               !.steps = Append(r.steps, "respond"),
                               !.response = restErrorReply(r.error)]
                ELSE [@ EXCEPT !.pc = "awaiting", !.endpoint = r.endpoint,
                               !.handlerInput = r.input, !.handlerCalls = @ + 1,
                               !.steps = r.steps]]
    /\ UNCHANGED <<regVars, mcpTools, request, caught, httpVars>>

\* Bound of the model: the POST /rpc requests one Fastify instance receives.
MaxRequests == 2

\* The X-Request-Id header of a request: absent, empty or a client's value.
RequestIdHeaders == {Undefined, "", "client-1"}

\* genReqId: () => crypto.randomUUID(), a value no earlier call returned.
randomUUID(n) == "uuid-" \o ToString(n)

\* POST /rpc/:name with an X-Request-Id header. With requestIdHeader set,
\* Fastify takes request.id from that header when the request carries a
\* non-empty one and calls genReqId otherwise; the route hands request.id to
\* the handler as config.requestId when lookup and input validation pass.
\* What the request is answered is RestReceive's and RestSettle's matter.
restRpc(header, endpointName, body) ==
    LET generate == header \in {Undefined, ""}
        id == IF generate THEN randomUUID(requestIds.generated + 1) ELSE header
        r == restBegin(endpointName, body)
    IN  /\ requestIds.received < MaxRequests
        /\ requestIds' =
              [received |-> requestIds.received + 1,
               generated |-> requestIds.generated + (IF generate THEN 1 ELSE 0),
               handed |-> IF r.threw THEN requestIds.handed
                          ELSE Append(requestIds.handed, id)]
        /\ UNCHANGED <<regVars, callVars, caught, toolsReply>>

\* No GET /tools reply.
NoToolsReply ==
    [status |-> 0, etag |-> Undefined, cacheControl |-> Undefined,
     hasBody |-> FALSE, body |-> <<>>]

\* An element of the GET /tools listing.
ToolSummary(e) ==
    [name |-> e.name, summary |-> e.summary, description |-> e.description]

\* The If-None-Match header of a GET /tools request: absent, a stale value,
\* the ETag of the last reply or the registry's current ETag.
IfNoneMatchHeaders ==
    {Undefined, "\"stale-etag\"", toolsReply.etag, etag}

\* A variant of getTools that never reads If-None-Match.
getToolsUnconditional(ifNoneMatch) ==
    LET context == [transportType |-> "rest", sessionId |-> Undefined]
        tools == IF enricher = Undefined THEN list
                 ELSE EnricherReturns(enricher, list, context)
    IN  /\ cachedEtag' = etag
        /\ toolsReply' = [status |-> 200, etag |-> etag,
                          cacheControl |-> "no-cache",
                          hasBody |-> TRUE,
                          body |-> [i \in 1..Len(tools) |-> ToolSummary(tools[i])]]
        /\ endpoints' = IF enricher = Undefined THEN endpoints
                        ELSE EnricherLeaves(enricher, list)
        /\ lastThrown' = Undefined
        /\ enriched' = NoListing
        /\ notified' = <<>>
        /\ UNCHANGED <<listeners, enricher, internalVersion, subs, callVars,
                       caught, requestIds>>

\* GET /tools: reads registry.etag, answers 304 without a body when the
\* If-None-Match header equals it, and otherwise 200 with the enriched
\* listing for the REST transport; both with ETag and Cache-Control.
getTools(ifNoneMatch) ==
    LET context == [transportType |-> "rest", sessionId |-> Undefined]
        tools == IF enricher = Undefined THEN list
                 ELSE EnricherReturns(enricher, list, context)
    IN  /\ cachedEtag' = etag
        /\ IF ifNoneMatch = etag
           THEN /\ toolsReply' = [status |-> 304, etag |-> etag,
                                  cacheControl |-> "no-cache",
                                  hasBody |-> FALSE, body |-> <<>>]
                /\ UNCHANGED endpoints
           ELSE /\ toolsReply' = [status |-> 200, etag |-> etag,
                                  cacheControl |-> "no-cache",
                                  hasBody |-> TRUE,
                                  body |-> [i \in 1..Len(tools) |-> ToolSummary(tools[i])]]
                /\ endpoints' = IF enricher = Undefined THEN endpoints
                                ELSE EnricherLeaves(enricher, list)
        /\ lastThrown' = Undefined
        /\ enriched' = NoListing
        /\ notified' = <<>>
        /\ UNCHANGED <<listeners, enricher, internalVersion, subs, callVars,
                       caught, requestIds>>

RestSettle ==
    /\ calls["rest"].pc = "awaiting"
    /\ LET r == restFinish(calls["rest"])
       IN  calls' = [calls EXCEPT !["rest"] =
                [@ EXCEPT !.pc = "done", !.steps = Append(r.steps, "respond"),
                          !.response = IF r.threw THEN restErrorReply(r.error)
                                                  ELSE restReply(r.value)]]
    /\ UNCHANGED <<regVars, mcpTools, request, caught, httpVars>>

----------------------------------------------------------------------------
(* startMcpServer: one tool per descriptor of registry.list() at start-up *)

StartMcpServer ==
    /\ ~mcpTools.started
    /\ mcpTools' = [started |-> TRUE, tools |-> list]
    /\ UNCHANGED <<regVars, request, calls, caught, httpVars>>

\* The tool FastMCP resolves for a name, NoEndpoint when there is none.
mcpTool(name) ==
    IF \E i \in 1..Len(mcpTools.tools) : mcpTools.tools[i].name = name
    THEN mcpTools.tools[CHOOSE i \in 1..Len(mcpTools.tools) : mcpTools.tools[i].name = name]
    ELSE NoEndpoint

\* A variant of execute that calls endpoint.input.parse(args), which throws
\* the ZodError itself.
mcpBeginInputParse(endpoint, args) ==
    LET parsedInput == SafeParse(endpoint.input, args)
    IN  IF ~parsedInput.success
        THEN Thrown(parsedInput.error, endpoint, <<"lookup", "validateInput">>)
        ELSE HandlerCalled(endpoint, parsedInput.data,
                           <<"lookup", "validateInput", "handler">>)

\* The tool's execute up to its await (inside try).
mcpBegin(endpoint, args) ==
    LET parsedInput == SafeParse(endpoint.input, args)
    IN  IF ~parsedInput.success
        THEN Thrown(ValidationError(0, "Invalid tool input",
                        JObj([tool |-> JStr(endpoint.name),
                              issues |-> ZodFormat(parsedInput.error.issues.v)])),
                    endpoint, <<"lookup", "validateInput">>)
        ELSE HandlerCalled(endpoint, parsedInput.data,
                           <<"lookup", "validateInput", "handler">>)

\* The tool's execute after its await (inside try).
mcpFinish(call) ==
    LET result == HandlerOutcome(call.endpoint, call.handlerInput)
    IN  IF result.threw
        THEN Raised(result.error, call.steps)
        ELSE outputParse(call.endpoint, result.value, call.steps)

\* return { content: [{ type: 'text', text: JSON.stringify(validatedOutput) }] }
mcpResult(validatedOutput) ==
    [NoResponse EXCEPT !.body = JsonWire(validatedOutput)]

\* A variant of the catch block that serializes the message alone:
\* { error: error instanceof Error ? error.message : String(error) }.
mcpCatchMessageOnly(error) ==
    [NoResponse EXCEPT !.isError = TRUE,
                       !.body = JObj([error |-> IF error.isError THEN JStr(error.message)
                                                ELSE error.value])]

\* The catch block of execute.
mcpCatch(error) ==
    LET rivetError == toRivetBenchError(error)
    IN  [NoResponse EXCEPT !.isError = TRUE, !.body = JsonWire(ToJSON(rivetError))]

McpReceive ==
    /\ calls["mcp"].pc = "idle"
    /\ mcpTool(request.name) # NoEndpoint
    /\ LET r == mcpBegin(mcpTool(request.name), request.raw)
       IN  calls' = [calls EXCEPT !["mcp"] =
                IF r.threw
                THEN [@ EXCEPT !.pc = "done", !.endpoint = r.endpoint,
                               !.steps = Append(r.steps, "respond"),
                               !.response = mcpCatch(r.error)]
                ELSE [@ EXCEPT !.pc = "awaiting", !.endpoint = r.endpoint,
                               !.handlerInput = r.input, !.handlerCalls = @ + 1,
                               !.steps = r.steps]]
    /\ UNCHANGED <<regVars, mcpTools, request, caught, httpVars>>

McpSettle ==
    /\ calls["mcp"].pc = "awaiting"
    /\ LET r == mcpFinish(calls["mcp"])
       IN  calls' = [calls EXCEPT !["mcp"] =
                [@ EXCEPT !.pc = "done", !.steps = Append(r.steps, "respond"),
                          !.response = IF r.threw THEN mcpCatch(r.error)
                                                  ELSE mcpResult(r.value)]]
    /\ UNCHANGED <<regVars, mcpTools, request, caught, httpVars>>

----------------------------------------------------------------------------
(* src/cli/index.ts *)

\* An argv string, with what the string functions the CLI applies to it
\* yield: dashes is the number of leading '-' (startsWith('-') is dashes > 0),
\* body is replace(/^-+/, ''), numeric is /^-?\d+(\.\d+)?$/.test, lower is
\* toLowerCase(), bracketed is "[...]" or "{...}", json is JSON.parse (JInvalid
\* when JSON.parse throws).
JInvalid == [t |-> "invalid", v |-> "SyntaxError"]

Token(text, dashes, body, numeric, lower, bracketed, json) ==
    [text |-> text, dashes |-> dashes, body |-> body, numeric |-> numeric,
     lower |-> lower, bracketed |-> bracketed, json |-> json]

\* "-name" and "--name"
FlagToken(dashes, body) ==
    LET text == (IF dashes = 2 THEN "--" ELSE "-") \o body
    IN  Token(text, dashes, body, FALSE, text, FALSE, JInvalid)

\* An argv string without a leading dash that is no JSON object or array.
WordToken(str) ==
    LET numeric == str \in {"5", "42"}
        lower == CASE str = "Hello" -> "hello" [] str = "TRUE" -> "true" [] OTHER -> str
    IN  Token(str, 0, str, numeric, lower, FALSE,
              CASE numeric -> JNum(str)
                [] str \in {"true", "false"} -> JBool(str)
                [] str = "null" -> JNull
                [] OTHER -> JInvalid)

RECURSIVE SetToSeq(_)
SetToSeq(S) ==
    IF S = {} THEN <<>>
    ELSE LET x == CHOOSE y \in S : TRUE IN <<x>> \o SetToSeq(S \ {x})

\* JSON.stringify of the JSON values the model sends.
RECURSIVE JsonStringify(_)
JsonStringify(j) ==
    CASE j.t = "string" -> "\"" \o j.v \o "\""
      [] j.t = "object" ->
           LET keys == SetToSeq(DOMAIN j.v)
           IN  "{" \o Join([i \in 1..Len(keys) |->
                              "\"" \o keys[i] \o "\":" \o JsonStringify(j.v[keys[i]])], ",")
                   \o "}"
      [] OTHER -> j.v

\* The argv string that is the JSON text of j.
JsonToken(j) ==
    LET text == JsonStringify(j)
    IN  Token(text, 0, text, j.t = "number", text, j.t = "object", j)

\* parsedInput[paramName] = parsedValue
Put(obj, key, value) ==
    [k \in DOMAIN obj \cup {key} |-> IF k = key THEN value ELSE obj[k]]

ParseFailed(error) ==
    [threw |-> TRUE, error |-> error, endpointName |-> Undefined, input |-> JUndef,
     rawOutput |-> FALSE]
Parsed(endpointName, input, rawOutput) ==
    [threw |-> FALSE, error |-> NonError(JUndef), endpointName |-> endpointName,
     input |-> input, rawOutput |-> rawOutput]

\* The coercion of a named parameter's value.
coerceValue(value) ==
    IF value.numeric THEN JNum(value.text)
    ELSE IF value.lower = "true" THEN JBool("true")
    ELSE IF value.lower = "false" THEN JBool("false")
    ELSE IF value.bracketed /\ value.json # JInvalid THEN value.json
    ELSE JStr(value.text)

\* The named-parameter loop of parseCallArgs, from position index on.
RECURSIVE parseNamed(_, _, _, _, _)
parseNamed(endpointName, rawOutput, filteredArgs, index, parsedInput) ==
    IF index > Len(filteredArgs) \/ filteredArgs[index].text = ""
    THEN Parsed(endpointName, JObj(parsedInput), rawOutput)
    ELSE LET flag == filteredArgs[index]
         IN  IF flag.dashes = 0
             THEN ParseFailed(ValidationError(0,
                      "Invalid parameter format. Use -paramName value or --input JSON",
                      JObj([flag |-> JStr(flag.text)])))
             ELSE IF index + 1 > Len(filteredArgs)
             THEN ParseFailed(ValidationError(0, "Missing value for parameter",
                                              JObj([flag |-> JStr(flag.text)])))
             ELSE parseNamed(endpointName, rawOutput, filteredArgs, index + 2,
                             Put(parsedInput, flag.body,
                                 coerceValue(filteredArgs[index + 1])))

\* A variant of parseCallArgs that lets a missing endpoint name through.
parseCallArgsNameOptional(args) ==
    IF args = <<>> \/ args[1].text = ""
    THEN Parsed(Undefined, JObj(EmptyObject), FALSE)
    ELSE
    LET endpointName == args[1].text
        rest == Tail(args)
        isRaw(a) == a.text \in {"--raw", "-r"}
        rawOutput == \E i \in 1..Len(rest) : isRaw(rest[i])
        filteredArgs == SelectSeq(rest, LAMBDA a : ~isRaw(a))
        inputAt == {i \in 1..Len(filteredArgs) : filteredArgs[i].text \in {"--input", "-i"}}
    IN  IF inputAt # {}
        THEN LET index == CHOOSE i \in inputAt : \A j \in inputAt : i <= j
                 flag == filteredArgs[index]
             IN  IF index + 1 > Len(filteredArgs) \/ filteredArgs[index + 1].text = ""
                 THEN ParseFailed(ValidationError(0, "Missing value for input flag",
                                                  JObj([flag |-> JStr(flag.text)])))
                 ELSE LET value == filteredArgs[index + 1]
                      IN  IF value.json # JInvalid
                          THEN Parsed(endpointName, value.json, rawOutput)
                          ELSE ParseFailed(ValidationError(0, "Invalid JSON input",
                                   JObj([rawInput |-> JStr(value.text),
                                         cause |-> JStr("SyntaxError")])))
        ELSE parseNamed(endpointName, rawOutput, filteredArgs, 1, EmptyObject)

parseCallArgs(args) ==
    IF args = <<>> \/ args[1].text = ""
    THEN ParseFailed(ValidationError(0, "Endpoint name is required for call command",
                                     JUndef))
    ELSE
    LET endpointName == args[1].text
        rest == Tail(args)
        isRaw(a) == a.text \in {"--raw", "-r"}
        rawOutput == \E i \in 1..Len(rest) : isRaw(rest[i])
        filteredArgs == SelectSeq(rest, LAMBDA a : ~isRaw(a))
        inputAt == {i \in 1..Len(filteredArgs) : filteredArgs[i].text \in {"--input", "-i"}}
    IN  IF inputAt # {}
        THEN LET index == CHOOSE i \in inputAt : \A j \in inputAt : i <= j
                 flag == filteredArgs[index]
             IN  IF index + 1 > Len(filteredArgs) \/ filteredArgs[index + 1].text = ""
                 THEN ParseFailed(ValidationError(0, "Missing value for input flag",
                                                  JObj([flag |-> JStr(flag.text)])))
                 ELSE LET value == filteredArgs[index + 1]
                      IN  IF value.json # JInvalid
                          THEN Parsed(endpointName, value.json, rawOutput)
                          ELSE ParseFailed(ValidationError(0, "Invalid JSON input",
                                   JObj([rawInput |-> JStr(value.text),
                                         cause |-> JStr("SyntaxError")])))
        ELSE parseNamed(endpointName, rawOutput, filteredArgs, 1, EmptyObject)

\* A line written to a stream: fmt "json" is JSON.stringify(value, null, 2),
\* fmt "text" is the string value.v itself.
JsonLine(value) == [fmt |-> "json", value |-> JsonWire(value)]
TextLine(str) == [fmt |-> "text", value |-> JStr(str)]

IsPrimitive(j) == j.t \in {"string", "number", "boolean"}

formatOutput(output, rawOutput) ==
    IF ~rawOutput THEN JsonLine(output)
    ELSE IF output.t \in {"null", "undefined"} THEN TextLine("")
    ELSE IF IsPrimitive(output) THEN TextLine(output.v)
    ELSE IF output.t = "object" /\ Cardinality(DOMAIN output.v) = 1
            /\ IsPrimitive(output.v[CHOOSE k \in DOMAIN output.v : TRUE])
    THEN TextLine(output.v[CHOOSE k \in DOMAIN output.v : TRUE].v)
    ELSE JsonLine(output)

UsageText == "RivetBench CLI Usage: rivetbench list | rivetbench call <name> [options]"

\* handleList
handleList ==
    IF Len(list) = 0 THEN <<TextLine("No endpoints registered.")>>
    ELSE [i \in 1..Len(list) |-> TextLine("- " \o list[i].name \o ": " \o list[i].summary)]

\* handleCall up to its await.
cliBegin(args) ==
    LET parsed == parseCallArgs(args)
    IN  IF parsed.threw THEN Thrown(parsed.error, NoEndpoint, <<>>)
        ELSE
        LET endpoint == get(parsed.endpointName)
        IN  IF endpoint = NoEndpoint
            THEN Thrown(EndpointNotFoundError(0, parsed.endpointName), NoEndpoint,
                        <<"lookup">>)
            ELSE LET parsedInput == SafeParse(endpoint.input, parsed.input)
                 IN  IF ~parsedInput.success
                     THEN Thrown(ValidationError(0, "Invalid endpoint input",
                                     JObj([endpoint |-> JStr(parsed.endpointName),
                                           issues |-> ZodFormat(parsedInput.error.issues.v)])),
                                 endpoint, <<"lookup", "validateInput">>)
                     ELSE HandlerCalled(endpoint, parsedInput.data,
                                        <<"lookup", "validateInput", "handler">>)

\* handleCall after its await, up to the value it prints.
cliFinish(call) ==
    LET result == HandlerOutcome(call.endpoint, call.handlerInput)
    IN  IF result.threw
        THEN Raised(result.error, call.steps)
        ELSE outputParse(call.endpoint, result.value, call.steps)

\* writeLine(stdout, formatOutput(parsedOutput, rawOutput)); return 0
cliSuccess(parsedOutput, rawOutput) ==
    [NoResponse EXCEPT !.exitCode = 0,
                       !.stdout = <<formatOutput(parsedOutput, rawOutput)>>]

\* The catch block of run.
cliCatch(error) ==
    LET rivetError == toRivetBenchError(error)
    IN  [NoResponse EXCEPT !.exitCode = 1, !.stderr = <<JsonLine(ToJSON(rivetError))>>]

Includes(argv, text) == \E i \in 1..Len(argv) : argv[i].text = text

\* run(argv), up to the await of handleCall.
cliRun(call, argv) ==
    IF argv = <<>> \/ Includes(argv, "--help") \/ Includes(argv, "-h")
    THEN [call EXCEPT !.pc = "done",
                      !.response = [NoResponse EXCEPT !.exitCode = 0,
                                       !.stdout = <<TextLine(UsageText)>>]]
    ELSE IF argv[1].text = "list"
    THEN [call EXCEPT !.pc = "done",
                      !.response = [NoResponse EXCEPT !.exitCode = 0,
                                                      !.stdout = handleList]]
    ELSE IF argv[1].text = "call"
    THEN LET r == cliBegin(Tail(argv))
         IN  IF r.threw
             THEN [call EXCEPT !.pc = "done", !.endpoint = r.endpoint,
                               !.steps = Append(r.steps, "respond"),
                               !.response = cliCatch(r.error)]
             ELSE [call EXCEPT !.pc = "awaiting", !.endpoint = r.endpoint,
                               !.handlerInput = r.input, !.handlerCalls = @ + 1,
                               !.rawOutput = parseCallArgs(Tail(argv)).rawOutput,
                               !.steps = r.steps]
    ELSE [call EXCEPT !.pc = "done",
                      !.response = [NoResponse EXCEPT !.exitCode = 1,
                         !.stderr = <<TextLine("Unknown command: " \o argv[1].text),
                                      TextLine(UsageText)>>]]

CliReceive(argv) ==
    /\ calls["cli"].pc = "idle"
    /\ calls' = [calls EXCEPT !["cli"] = [cliRun(@, argv) EXCEPT !.argv = argv]]
    /\ UNCHANGED <<regVars, mcpTools, request, caught, httpVars>>

CliSettle ==
    /\ calls["cli"].pc = "awaiting"
    /\ LET r == cliFinish(calls["cli"])
       IN  calls' = [calls EXCEPT !["cli"] =
                [@ EXCEPT !.pc = "done", !.steps = Append(r.steps, "respond"),
                          !.response = IF r.threw THEN cliCatch(r.error)
                                       ELSE cliSuccess(r.value, calls["cli"].rawOutput)]]
    /\ UNCHANGED <<regVars, mcpTools, request, caught, httpVars>>

\* The command lines that send the invocation under test: the JSON input
\* form, and the named-parameter form when the raw input is an object of
\* strings.
NamedArgs(raw) ==
    LET keys == SetToSeq(DOMAIN raw.v)
    IN  [i \in 1..(2 * Len(keys)) |->
           IF i % 2 = 1 THEN FlagToken(1, keys[(i + 1) \div 2])
           ELSE WordToken(raw.v[keys[i \div 2]].v)]

ArgvFor(req) ==
    LET head == <<WordToken("call"), WordToken(req.name)>>
        json == head \o <<FlagToken(2, "input"), JsonToken(req.raw)>>
    IN  {json}
        \cup (IF req.raw.t = "object"
                 /\ \A k \in DOMAIN req.raw.v : req.raw.v[k].t = "string"
              THEN {head \o NamedArgs(req.raw)} ELSE {})

----------------------------------------------------------------------------
(* Specifications *)

Requests == [name : CallNames, raw : RawInputs]

\* No value has been thrown at toRivetBenchError yet.
NotCaught ==
    [stage |-> 0, error |-> NonError(JUndef), rivetError |-> NonError(JUndef),
     again |-> NonError(JUndef)]

\* A new registry, the MCP server not started, no invocation sent.
Constructed ==
    /\ endpoints = <<>>
    /\ listeners = <<>>
    /\ enricher = Undefined
    /\ internalVersion = 0
    /\ cachedEtag = Undefined
    /\ subs = <<>>
    /\ lastThrown = Undefined
    /\ notified = <<>>
    /\ enriched = NoListing
    /\ mcpTools = [started |-> FALSE, tools |-> <<>>]
    /\ calls = [s \in Surfaces |-> IdleCall]
    /\ requestIds = [received |-> 0, generated |-> 0, handed |-> <<>>]
    /\ toolsReply = NoToolsReply

Init ==
    /\ Constructed
    /\ request \in Requests
    /\ caught = NotCaught

Register(d) == register(d) /\ UNCHANGED <<callVars, caught, httpVars>>
SignalToolsChanged == signalToolsChanged /\ UNCHANGED <<callVars, caught, httpVars>>
SetToolEnricher(fn) == setToolEnricher(fn) /\ UNCHANGED <<callVars, caught, httpVars>>
OnToolsChanged(l) == onToolsChanged(l) /\ UNCHANGED <<callVars, caught, httpVars>>
Unsubscribe(i) == unsubscribe(i) /\ UNCHANGED <<callVars, caught, httpVars>>
ReadEtag == readEtag /\ UNCHANGED <<callVars, caught, httpVars>>
ListEnriched(context) == listEnriched(context) /\ UNCHANGED <<callVars, caught, httpVars>>

\* The adapters serving the invocation under test while an author registers
\* descriptors under names that are still free.
Next ==
    \/ \E d \in Descriptors : ~has(d.name) /\ Register(d)
    \/ StartMcpServer
    \/ RestReceive
    \/ RestSettle
    \/ McpReceive
    \/ McpSettle
    \/ \E argv \in ArgvFor(request) : CliReceive(argv)
    \/ CliSettle

Spec == Init /\ [][Next]_vars

\* The registry on its own.
RegistryInit ==
    /\ Constructed
    /\ request = [name |-> "echo", raw |-> JObj([message |-> JStr("Hello")])]
    /\ caught = NotCaught

RegistryNext ==
    \/ \E d \in RegistryDescriptors : Register(d)
    \/ SignalToolsChanged
    \/ \E fn \in EnricherIds \cup {Undefined} : SetToolEnricher(fn)
    \/ \E l \in ListenerIds : OnToolsChanged(l)
    \/ \E i \in 1..MaxSubs : Unsubscribe(i)
    \/ ReadEtag
    \/ \E context \in Contexts : ListEnriched(context)

RegistrySpec == RegistryInit /\ [][RegistryNext]_vars

\* The Fastify instance on its own: POST /rpc requests with their request
\* ids and GET /tools requests, over a registry that an author changes.
HttpDescriptors == {EchoEndpoint("declared"), UppercaseEndpoint}

HttpInit ==
    /\ Constructed
    /\ request = [name |-> "echo", raw |-> JObj([message |-> JStr("Hello")])]
    /\ caught = NotCaught

RestRpc(header, endpointName, body) == restRpc(header, endpointName, body)
GetTools(ifNoneMatch) == getTools(ifNoneMatch)

HttpNext ==
    \/ \E d \in HttpDescriptors : ~has(d.name) /\ Register(d)
    \/ SignalToolsChanged
    \/ \E fn \in {"hideEcho", "annotate", Undefined} : SetToolEnricher(fn)
    \/ \E header \in RequestIdHeaders, name \in {"echo", "missing"} :
          RestRpc(header, name, JObj([message |-> JStr("Hello")]))
    \/ \E ifNoneMatch \in IfNoneMatchHeaders : GetTools(ifNoneMatch)

HttpSpec == HttpInit /\ [][HttpNext]_vars

\* The registry's notifications on their own, with listeners that subscribe
\* and unsubscribe a listener while they are being notified.
ReentrantListenerIds == ListenerIds \cup {"addsL2", "removesL2"}

NotifyInit ==
    /\ Constructed
    /\ request = [name |-> "echo", raw |-> JObj([message |-> JStr("Hello")])]
    /\ caught = NotCaught

NotifyNext ==
    \/ \E l \in ReentrantListenerIds : OnToolsChanged(l)
    \/ \E i \in 1..MaxSubs : Unsubscribe(i)
    \/ SignalToolsChanged

NotifySpec == NotifyInit /\ [][NotifyNext]_vars

\* The CLI on its own: run(argv) for the command lines below, over a registry
\* that an author fills.
CliDescriptors ==
    {EchoEndpoint(h) : h \in {"declared", "returnsInvalid", "throwsError"}}
    \cup {UppercaseEndpoint}

\* call <name> <rest...>
CallArgv(name, rest) == <<WordToken("call"), WordToken(name)>> \o rest

HelloJson == JsonToken(JObj([message |-> JStr("Hello")]))

CliArgvs ==
    {<<>>,
     <<FlagToken(2, "help")>>,
     <<FlagToken(1, "h")>>,
     <<WordToken("list")>>,
     <<WordToken("frobnicate")>>,
     <<WordToken("call")>>,
     CallArgv("echo", <<FlagToken(2, "input"), HelloJson>>),
     CallArgv("echo", <<FlagToken(1, "i"), HelloJson>>),
     CallArgv("echo", <<FlagToken(2, "input")>>),
     CallArgv("echo", <<FlagToken(2, "input"), WordToken("{bad")>>),
     CallArgv("echo", <<FlagToken(2, "input"), HelloJson, FlagToken(2, "raw")>>),
     CallArgv("echo", <<FlagToken(1, "message"), WordToken("Hello")>>),
     CallArgv("echo", <<FlagToken(1, "message"), WordToken("")>>),
     CallArgv("echo", <<FlagToken(1, "message"), WordToken("5")>>),
     CallArgv("echo", <<FlagToken(1, "message")>>),
     CallArgv("echo", <<WordToken("invalidparam"), WordToken("value")>>),
     CallArgv("echo", <<FlagToken(1, "message"), WordToken("Hello"), FlagToken(2, "raw")>>),
     CallArgv("echo", <<FlagToken(1, "message"), WordToken("Hello"), FlagToken(1, "r")>>),
     CallArgv("echo", <<FlagToken(1, "message"), WordToken("Hello"),
                        FlagToken(1, "r"), WordToken("yes")>>),
     CallArgv("echo", <<FlagToken(1, "message"), WordToken("Hello"),
                        FlagToken(1, "h"), WordToken("yes")>>),
     CallArgv("echo", <<FlagToken(1, "message"), FlagToken(2, "raw")>>),
     CallArgv("uppercase", <<FlagToken(1, "text"), WordToken("hi")>>),
     CallArgv("uppercase", <<FlagToken(1, "text"), WordToken("hi"), FlagToken(2, "raw")>>),
     CallArgv("missing", <<FlagToken(1, "message"), WordToken("Hello")>>)}

CliInit ==
    /\ Constructed
    /\ request = [name |-> "echo", raw |-> JObj([message |-> JStr("Hello")])]
    /\ caught = NotCaught

CliNext ==
    \/ \E d \in CliDescriptors : ~has(d.name) /\ Register(d)
    \/ \E argv \in CliArgvs : CliReceive(argv)
    \/ CliSettle

CliSpec == CliInit /\ [][CliNext]_vars

\* toRivetBenchError on its own: a catch block receives a thrown value and
\* normalizes it; the result is normalized once more.
TaxonomyErrors ==
    {RivetBenchError(oid, c.cls, message, c.statusCode, c.code, details) :
        oid \in {1, 2},
        c \in {[cls |-> "RivetBenchError", statusCode |-> 418, code |-> "ERROR_CODE"],
               [cls |-> "RivetBenchError", statusCode |-> 0, code |-> Undefined],
               [cls |-> "ValidationError", statusCode |-> 400, code |-> "VALIDATION_ERROR"],
               [cls |-> "EndpointNotFoundError", statusCode |-> 404,
                code |-> "ENDPOINT_NOT_FOUND"],
               [cls |-> "InternalServerError", statusCode |-> 500,
                code |-> "INTERNAL_SERVER_ERROR"],
               [cls |-> "ConfigurationError", statusCode |-> 500,
                code |-> "CONFIGURATION_ERROR"]},
        message \in {"Error message", ""},
        details \in {JUndef, JObj([field |-> JStr("message")])}}

UntypedErrors ==
    {ErrorObject(1, FALSE, FALSE, name, message, statusCode, Undefined, JUndef, JUndef) :
        name \in {"Error", "TypeError", "ServiceUnavailableError"},
        message \in {"boom", ""},
        statusCode \in {0, 503}}
    \cup {ZodError(1, <<ZodIssue("invalid_type", "inner", "Required")>>)}

NonErrorValues ==
    {NonError(v) : v \in {JUndef, JNull, JStr("boom"), JStr(""), JNum("42"),
                          JBool("false"), JObj([statusCode |-> JNum("503")])}}

ThrownValues == TaxonomyErrors \cup UntypedErrors \cup NonErrorValues

ErrorsInit ==
    /\ Constructed
    /\ request = [name |-> "echo", raw |-> JObj([message |-> JStr("Hello")])]
    /\ caught \in {[NotCaught EXCEPT !.error = e] : e \in ThrownValues}

\* const rivetError = toRivetBenchError(error)
Normalize ==
    /\ caught.stage = 0
    /\ caught' = [caught EXCEPT !.stage = 1, !.rivetError = toRivetBenchError(caught.error)]
    /\ UNCHANGED <<regVars, callVars, httpVars>>

\* toRivetBenchError(rivetError)
NormalizeAgain ==
    /\ caught.stage = 1
    /\ caught' = [caught EXCEPT !.stage = 2, !.again = toRivetBenchError(caught.rivetError)]
    /\ UNCHANGED <<regVars, callVars, httpVars>>

ErrorsNext ==
    \/ Normalize
    \/ NormalizeAgain

ErrorsSpec == ErrorsInit /\ [][ErrorsNext]_vars

----------------------------------------------------------------------------
(* What the caller of a surface observes *)

Done(s) == calls[s].pc = "done"
Found(s) == calls[s].endpoint # NoEndpoint

\* The invocation failed: a status other than 200, isError, a nonzero exit code.
Failed(s) ==
    CASE s = "rest" -> calls[s].response.status # 200
      [] s = "mcp" -> calls[s].response.isError
      [] s = "cli" -> calls[s].response.exitCode # 0

\* The JSON value the caller reads: the response body, the tool content, or
\* the JSON document written to stdout (success) or stderr (failure).
Emitted(s) ==
    IF s = "cli"
    THEN LET lines == IF Failed(s) THEN calls[s].response.stderr
                                   ELSE calls[s].response.stdout
         IN  IF Len(lines) = 1 /\ lines[1].fmt = "json" THEN lines[1].value ELSE JUndef
    ELSE calls[s].response.body

\* { error: { name, code, message, details? } }
IsUniformError(body) ==
    /\ body.t = "object"
    /\ DOMAIN body.v = {"error"}
    /\ body.v.error.t = "object"
    /\ {"name", "code", "message"} \subseteq DOMAIN body.v.error.v
    /\ DOMAIN body.v.error.v \subseteq {"name", "code", "message", "details"}
    /\ \A k \in {"name", "code", "message"} : body.v.error.v[k].t = "string"

\* The kind of the taxonomy that an error name stands for: the class
\* EndpointNotFoundError is the kind NotFound.
KindOf(name) == IF name = "EndpointNotFoundError" THEN "NotFound" ELSE name

TaxonomyKinds == {"ValidationError", "NotFound", "InternalServerError", "ConfigurationError"}

ErrorKind(s) ==
    IF IsUniformError(Emitted(s)) THEN KindOf(Emitted(s).v.error.v.name.v) ELSE Undefined
ErrorCode(s) ==
    IF IsUniformError(Emitted(s)) THEN Emitted(s).v.error.v.code.v ELSE Undefined
ErrorDetails(s) ==
    IF IsUniformError(Emitted(s)) /\ "details" \in DOMAIN Emitted(s).v.error.v
    THEN Emitted(s).v.error.v.details ELSE JUndef

Outcome(s) ==
    IF Failed(s)
    THEN [ok |-> FALSE, output |-> JUndef, kind |-> ErrorKind(s), code |-> ErrorCode(s)]
    ELSE [ok |-> TRUE, output |-> Emitted(s), kind |-> Undefined, code |-> Undefined]

\* What the handler of a finished invocation did.
HandlerRan(s) == Done(s) /\ calls[s].handlerCalls = 1
Settled(s) == HandlerOutcome(calls[s].endpoint, calls[s].handlerInput)

----------------------------------------------------------------------------
(* Claims *)

\* C1: transport parity. Two surfaces that have answered the same invocation
\* of the same registered descriptor report the same outcome: the same success
\* output, or a failure of the same kind and code.
C1_TransportParity ==
    \A s1, s2 \in Surfaces :
        (Done(s1) /\ Done(s2) /\ Found(s1) /\ calls[s1].endpoint = calls[s2].endpoint)
            => Outcome(s1) = Outcome(s2)

\* C2: register with a name that is already present throws and changes
\* nothing: list(), get(name), version, ETag, listeners and enricher are as
\* before the call, and no listener is invoked.
C2_DuplicateRegisterChangesNothing ==
    [][\A d \in RegistryDescriptors :
         (has(d.name) /\ Register(d)) =>
            /\ lastThrown' = DuplicateMessage(d.name)
            /\ list' = list
            /\ get(d.name)' = get(d.name)
            /\ internalVersion' = internalVersion
            /\ cachedEtag' = cachedEtag
            /\ etag' = etag
            /\ listeners' = listeners
            /\ enricher' = enricher
            /\ notified' = <<>>]_vars

\* A duplicate register has just thrown on a registry that holds two
\* descriptors, a listener, an enricher, a cached ETag and a raised version.
C2_Witness ==
    /\ lastThrown = DuplicateMessage("test")
    /\ Len(endpoints) = 2
    /\ listeners # <<>>
    /\ enricher # Undefined
    /\ cachedEtag # Undefined
    /\ internalVersion > 0

\* The handler returned a value that its descriptor's output schema rejects.
OutputViolated(s) ==
    /\ HandlerRan(s)
    /\ ~Settled(s).threw
    /\ ~SafeParse(calls[s].endpoint.output, Settled(s).value).success

\* C3: an invocation whose handler returned a value violating the output
\* schema fails as InternalServerError with code INTERNAL_SERVER_ERROR (status
\* 500 on REST) on every surface.
C3_OutputViolationIsInternalServerError ==
    \A s \in Surfaces :
        OutputViolated(s) =>
            /\ Failed(s)
            /\ ErrorKind(s) = "InternalServerError"
            /\ ErrorCode(s) = "INTERNAL_SERVER_ERROR"
            /\ (s = "rest" => calls[s].response.status = 500)

PipelineOrder == <<"lookup", "validateInput", "handler", "validateOutput">>

IsPrefix(p, q) == Len(p) <= Len(q) /\ \A i \in 1..Len(p) : p[i] = q[i]

Responded(steps) == steps # <<>> /\ steps[Len(steps)] = "respond"

BeforeResponse(steps) ==
    IF Responded(steps) THEN SubSeq(steps, 1, Len(steps) - 1) ELSE steps

\* C4: on every surface the steps of an invocation occur in the order lookup,
\* input validation, handler, output validation, response; the handler is
\* called at most once, only after the name resolved and the raw input passed
\* the input schema, with the validated input; it is never called when lookup
\* or input validation fails.
C4_PipelineOrder ==
    \A s \in Surfaces :
        LET c == calls[s]
            valid == SafeParse(c.endpoint.input, request.raw)
        IN  /\ IsPrefix(BeforeResponse(c.steps), PipelineOrder)
            /\ Done(s) <=> Responded(c.steps)
            /\ c.handlerCalls = Cardinality({i \in DOMAIN c.steps : c.steps[i] = "handler"})
            /\ c.handlerCalls <= 1
            /\ c.handlerCalls = 1 =>
                  /\ Found(s)
                  /\ valid.success
                  /\ c.handlerInput = valid.data
            /\ (c.pc # "idle" /\ (~Found(s) \/ ~valid.success)) => c.handlerCalls = 0

\* A surface has run all five steps on a raw input with an unknown key, which
\* validation stripped before the handler saw it.
C4_Witness ==
    \E s \in Surfaces :
        /\ calls[s].steps = Append(PipelineOrder, "respond")
        /\ calls[s].handlerInput # request.raw
        /\ calls[s].handlerInput = JObj([message |-> JStr("hi")])

\* C5: invoking a name that is not in the registry fails with kind NotFound,
\* code ENDPOINT_NOT_FOUND and details holding the requested name: status 404
\* on REST, exit code 1 on the CLI.
C5_UnknownNameIsNotFound ==
    \A s \in {"rest", "cli"} :
        (Done(s) /\ ~Found(s)) =>
            /\ Failed(s)
            /\ ErrorKind(s) = "NotFound"
            /\ ErrorCode(s) = "ENDPOINT_NOT_FOUND"
            /\ ErrorDetails(s) = JObj([endpointName |-> JStr(request.name)])
            /\ calls[s].handlerCalls = 0
            /\ (s = "rest" => calls[s].response.status = 404)
            /\ (s = "cli" => calls[s].response.exitCode = 1)

\* REST and the CLI have both answered an invocation of a name that the
\* registry did not hold.
C5_Witness ==
    /\ Done("rest") /\ ~Found("rest") /\ calls["rest"].response.status = 404
    /\ Done("cli") /\ ~Found("cli") /\ calls["cli"].response.exitCode = 1

\* The issue object names every field of the schema that the raw input fails,
\* or holds a top-level message when the raw input is no object.
IsFieldLevel(issues, schema, raw) ==
    /\ issues.t = "object"
    /\ "_errors" \in DOMAIN issues.v
    /\ IF raw.t # "object"
       THEN issues.v["_errors"].v # <<>>
       ELSE \A i \in 1..Len(schema) :
               FieldIssue(schema[i], raw) # JUndef =>
                  /\ schema[i].key \in DOMAIN issues.v
                  /\ issues.v[schema[i].key].t = "object"
                  /\ issues.v[schema[i].key].v["_errors"].v # <<>>

C7_FailuresAreUniformTaxonomyErrors ==
    \A s \in Surfaces :
        (Done(s) /\ Failed(s)) =>
            /\ IsUniformError(Emitted(s))
            /\ ErrorKind(s) \in TaxonomyKinds

\* C8: toRivetBenchError returns a taxonomy error for every thrown value; a
\* taxonomy error comes back as the same object; any other Error is wrapped as
\* InternalServerError with its message and, in details, its name; a value
\* that is no Error is wrapped as InternalServerError with the value in
\* details; normalizing the result again returns the same object.
C8_NormalizationTotalIdempotent ==
    LET error == caught.error
        rivetError == caught.rivetError
        wrapped == /\ rivetError.name = "InternalServerError"
                   /\ rivetError.code = "INTERNAL_SERVER_ERROR"
                   /\ rivetError.statusCode = 500
                   /\ rivetError.details.t = "object"
    IN  /\ caught.stage >= 1 =>
            /\ isRivetBenchError(rivetError)
            /\ isRivetBenchError(error) => rivetError = error
            /\ (error.isError /\ ~isRivetBenchError(error)) =>
                  /\ wrapped
                  /\ rivetError.message = error.message
                  /\ rivetError.details.v.originalError = JStr(error.name)
            /\ ~error.isError =>
                  /\ wrapped
                  /\ rivetError.details.v.error = error.value
        /\ caught.stage = 2 => caught.again = rivetError

\* A taxonomy error that a handler created has been normalized twice.
C8_Witness ==
    /\ caught.stage = 2
    /\ isRivetBenchError(caught.error)
    /\ caught.error.oid = 2
    /\ caught.error.name = "ValidationError"

\* The handler threw a value that is no error of the taxonomy.
UntypedThrown(s) ==
    /\ HandlerRan(s)
    /\ Settled(s).threw
    /\ ~isRivetBenchError(Settled(s).error)

\* C9: the error body emitted for an untyped exception of a handler holds no
\* stack trace, on REST, MCP and the CLI.
C9_NoStackTraceInBody ==
    \A s \in Surfaces :
        (UntypedThrown(s) /\ ErrorDetails(s).t = "object") =>
            "stack" \notin DOMAIN ErrorDetails(s).v

\* C10: a failed POST /rpc/{name} is answered with the uniform error JSON and
\* status 404 for NotFound, 400 for ValidationError, 500 for any other failure.
C10_RestStatusFollowsKind ==
    (Done("rest") /\ Failed("rest")) =>
        /\ IsUniformError(Emitted("rest"))
        /\ calls["rest"].response.status =
              CASE ErrorKind("rest") = "NotFound" -> 404
                [] ErrorKind("rest") = "ValidationError" -> 400
                [] OTHER -> 500

\* The invocation has to fail: the raw input or the handler's result is
\* rejected by the schema, or the handler threw.
MustFail(s) ==
    \/ ~SafeParse(calls[s].endpoint.input, request.raw).success
    \/ Settled(s).threw
    \/ ~SafeParse(calls[s].endpoint.output, Settled(s).value).success

HandlerSucceeded(s) ==
    /\ HandlerRan(s)
    /\ ~Settled(s).threw
    /\ SafeParse(calls[s].endpoint.output, Settled(s).value).success

\* C12: cli.run never throws; it returns 0 exactly when the command
\* succeeded, with the payload on stdout and nothing on stderr, and returns 1
\* on every failure, with the uniform error JSON on stderr and nothing on
\* stdout.
C12_CliExitCodeAndStreams ==
    Done("cli") =>
        LET response == calls["cli"].response
        IN  /\ ~response.raised
            /\ response.exitCode \in {0, 1}
            /\ response.exitCode = 0 =>
                  /\ response.stdout # <<>>
                  /\ response.stderr = <<>>
            /\ response.exitCode = 1 =>
                  /\ response.stdout = <<>>
                  /\ Len(response.stderr) = 1
                  /\ response.stderr[1].fmt = "json"
                  /\ IsUniformError(response.stderr[1].value)
            /\ calls["cli"].handlerCalls = 1 =>
                  (response.exitCode = 0 <=> HandlerSucceeded("cli"))

\* The arguments of a call command after the endpoint name are -name value
\* pairs: single-dash names, each followed by a value.
IsNamedPairs(rest) ==
    /\ Len(rest) % 2 = 0
    /\ \A i \in 1..Len(rest) : i % 2 = 1 => rest[i].dashes = 1

IsNamedCall(argv) ==
    /\ Len(argv) >= 2
    /\ argv[1].text = "call"
    /\ argv[2].dashes = 0
    /\ IsNamedPairs(SubSeq(argv, 3, Len(argv)))

\* C13: in a call command whose arguments are single-dash -name value pairs,
\* every pair is an operation parameter: no -name is taken for the raw-output,
\* JSON-input or help flag and no value is taken for a flag.
C13_FlagsAndParametersNeverCollide ==
    (calls["cli"].pc # "idle" /\ IsNamedCall(calls["cli"].argv)) =>
        LET argv == calls["cli"].argv
            parsed == parseCallArgs(Tail(argv))
        IN  /\ "lookup" \in {calls["cli"].steps[i] : i \in DOMAIN calls["cli"].steps}
            /\ ~parsed.threw
            /\ ~parsed.rawOutput
            /\ parsed = parseNamed(argv[2].text, FALSE, SubSeq(argv, 3, Len(argv)),
                                   1, EmptyObject)

\* The subscriptions whose unsubscribe function has not been called, and the
\* number of them that a listener function holds.
IsActive(i) == i \in 1..Len(subs) /\ ~subs[i].called

ActiveCount(f) == Cardinality({i \in 1..Len(subs) : IsActive(i) /\ subs[i].listener = f})

\* The position of a listener function's earliest active subscription.
FirstActive(f) ==
    CHOOSE i \in 1..Len(subs) :
        /\ IsActive(i) /\ subs[i].listener = f
        /\ \A j \in 1..Len(subs) : (IsActive(j) /\ subs[j].listener = f) => i <= j

\* How often one signalToolsChanged call invoked a listener function.
TimesNotified(invocations, f) ==
    Cardinality({i \in 1..Len(invocations) : invocations[i].listener = f})

\* C14: a signalChanged call invokes every listener that is subscribed when
\* the call is made exactly once, and no other, in subscription order, after
\* the version was incremented and the cached ETag invalidated: each listener
\* sees the new version and a new ETag.
C14_SignalNotifiesSubscribedInOrder ==
    [][SignalToolsChanged =>
          /\ \A f \in ListenerIds :
                TimesNotified(notified', f) = IF ActiveCount(f) > 0 THEN 1 ELSE 0
          /\ \A i, j \in 1..Len(notified') :
                (i < j /\ ActiveCount(notified'[i].listener) > 0
                       /\ ActiveCount(notified'[j].listener) > 0)
                    => FirstActive(notified'[i].listener) < FirstActive(notified'[j].listener)
          /\ \A i \in 1..Len(notified') :
                /\ notified'[i].version = internalVersion + 1
                /\ notified'[i].etag # etag]_vars

\* C15: once a subscription's unsubscribe function has been called, no later
\* signalChanged invokes its listener on behalf of it, while every other
\* subscription is still notified once per signalChanged.
C15_UnsubscribedIsNotNotified ==
    [][SignalToolsChanged =>
          /\ \A i \in 1..Len(subs) :
                (subs[i].called /\ ActiveCount(subs[i].listener) = 0)
                    => TimesNotified(notified', subs[i].listener) = 0
          /\ \A j \in 1..Len(subs) :
                (IsActive(j) /\ ActiveCount(subs[j].listener) = 1)
                    => TimesNotified(notified', subs[j].listener) = 1]_vars

\* C16: subscribing one listener function k times makes k subscriptions: a
\* signalChanged invokes the function once per subscription still active, and
\* an unsubscribe function removes only its own subscription.
C16_SubscriptionsAreIndependent ==
    [][/\ SignalToolsChanged =>
            \A f \in ListenerIds : TimesNotified(notified', f) = ActiveCount(f)
       /\ \A i \in 1..Len(subs) :
            Unsubscribe(i) =>
                \A j \in 1..Len(subs) :
                    (j # i /\ IsActive(j)) =>
                        \E k \in 1..Len(listeners') : listeners'[k] = subs[j].listener]_vars

\* C17: calling an unsubscribe function a second or later time is a no-op: it
\* changes no subscription, also when the same listener function has been
\* subscribed again meanwhile.
C17_UnsubscribeIsIdempotent ==
    [][\A i \in 1..Len(subs) :
          (subs[i].called /\ Unsubscribe(i)) => listeners' = listeners]_vars

\* C18: version is 0 on a new registry, grows by exactly 1 with each
\* signalChanged call and is changed by no other operation.
C18_VersionCountsSignals ==
    /\ internalVersion = 0
    /\ [][IF SignalToolsChanged
          THEN internalVersion' = internalVersion + 1
          ELSE internalVersion' = internalVersion]_vars

\* A register has failed on a registry whose version a signal has raised.
C18_Witness ==
    /\ internalVersion = MaxVersion
    /\ lastThrown # Undefined
    /\ Len(endpoints) = 2

\* C19: the ETag read right after a successful register or a signalChanged
\* call differs from the ETag read right before it.
C19_EtagChangesOnRegisterAndSignal ==
    [][(\/ SignalToolsChanged
        \/ \E d \in RegistryDescriptors : ~has(d.name) /\ Register(d))
          => etag' # etag]_vars

\* A signal has just notified a listener of a registry with two descriptors
\* and left the ETag cache empty.
C19_Witness ==
    /\ notified # <<>>
    /\ Len(endpoints) = 2
    /\ internalVersion = 1
    /\ cachedEtag = Undefined

\* (name, summary, description) of the registered descriptors, in order.
Summaries ==
    [i \in 1..Len(endpoints) |->
        <<endpoints[i].name, endpoints[i].summary, endpoints[i].description>>]

\* The fingerprint of a version and an ordered list of (name, summary,
\* description).
Fingerprint(version, summaries) ==
    LET text(x) == IF x = Undefined THEN "" ELSE x
        parts == [i \in 1..Len(summaries) |->
                    summaries[i][1] \o ":" \o text(summaries[i][2])
                                    \o ":" \o text(summaries[i][3])]
    IN  "\"" \o Sha256Hex16("v" \o ToString(version) \o ":" \o Join(parts, "|")) \o "\""

\* C20: the ETag is a function of version and the ordered (name, summary,
\* description) list alone, whatever calls led to them, and reading it again
\* with no register or signalChanged in between returns the same value.
C20_EtagIsDeterministic ==
    /\ [](etag = Fingerprint(internalVersion, Summaries))
    /\ [][ReadEtag => etag' = etag]_vars

\* C21: a successful register(descriptor) appends the descriptor as the last
\* element of list(), keeps the descriptors registered earlier in their order,
\* invalidates the cached ETag and does nothing else: version, listeners and
\* enricher are unchanged and no listener is invoked.
C21_RegisterAppendsAndInvalidates ==
    [][\A d \in RegistryDescriptors :
         (~has(d.name) /\ Register(d)) =>
            /\ lastThrown' = Undefined
            /\ list' = Append(list, d)
            /\ \A i \in 1..Len(list) : list'[i] = list[i]
            /\ get(d.name)' = d
            /\ cachedEtag' = Undefined
            /\ internalVersion' = internalVersion
            /\ listeners' = listeners
            /\ subs' = subs
            /\ enricher' = enricher
            /\ notified' = <<>>]_vars

\* A second descriptor has just been registered on a registry with a listener,
\* an enricher and a raised version.
C21_Witness ==
    /\ Len(endpoints) = 2
    /\ endpoints[2] \in RegistryDescriptors
    /\ lastThrown = Undefined
    /\ cachedEtag = Undefined
    /\ notified = <<>>
    /\ enriched = NoListing
    /\ listeners # <<>>
    /\ enricher # Undefined
    /\ internalVersion > 0

\* C22: listEnriched(context) returns what the most recently set enricher
\* returns for list() and the context, or list() itself when no enricher was
\* set or the last setToolEnricher call cleared it; a setToolEnricher call
\* replaces the enricher, and no other operation changes it.
C22_ListEnrichedAppliesLatestEnricher ==
    [][/\ \A fn \in EnricherIds \cup {Undefined} :
            SetToolEnricher(fn) => enricher' = fn
       /\ (~ \E fn \in EnricherIds \cup {Undefined} : SetToolEnricher(fn))
            => enricher' = enricher
       /\ \A context \in Contexts :
            ListEnriched(context) =>
               /\ enriched'.context = context
               /\ enriched'.tools =
                     IF enricher = Undefined THEN list
                     ELSE EnricherReturns(enricher, list, context)]_vars

\* listEnriched has just returned a filtered listing for the REST context.
C22_Witness ==
    /\ enricher = "hideEcho"
    /\ enriched.context.transportType = "rest"
    /\ Len(endpoints) = 2
    /\ Len(enriched.tools) = 1
    /\ enriched.tools[1].name = "test"

\* C23: listEnriched changes nothing the registry stores, whatever the
\* enricher did to the array it received and to its elements: list() and
\* get(name) return the same descriptors, in the same order and with the same
\* field values, as before the call.
C23_EnricherCannotChangeStoredDescriptors ==
    [][\A context \in Contexts :
         ListEnriched(context) =>
            /\ list' = list
            /\ \A d \in RegistryDescriptors : get(d.name)' = get(d.name)]_vars

\* C24: no two POST /rpc requests hand their handlers the same requestId,
\* whatever headers the clients sent.
C24_RequestIdsAreFresh ==
    \A i, j \in 1..Len(requestIds.handed) :
        i # j => requestIds.handed[i] # requestIds.handed[j]

\* The listing GET /tools owes a client: name, summary and description of
\* what listEnriched returns for the REST transport.
CurrentListing ==
    LET context == [transportType |-> "rest", sessionId |-> Undefined]
        tools == IF enricher = Undefined THEN list
                 ELSE EnricherReturns(enricher, list, context)
    IN  [i \in 1..Len(tools) |->
            [name |-> tools[i].name, summary |-> tools[i].summary,
             description |-> tools[i].description]]

Unparseable(argv) ==
    LET args == Tail(argv)
        options == SelectSeq(Tail(args), LAMBDA a : a.text \notin {"--raw", "-r"})
        jsonAt == {i \in 1..Len(options) : options[i].text \in {"--input", "-i"}}
        first == CHOOSE i \in jsonAt : \A j \in jsonAt : i <= j
    IN  \/ args = <<>>
        \/ /\ args # <<>>
           /\ jsonAt # {}
           /\ \/ first = Len(options)
              \/ first < Len(options) /\ options[first + 1].json = JInvalid
        \/ /\ args # <<>>
           /\ jsonAt = {}
           /\ \/ Len(options) % 2 = 1
              \/ \E i \in 1..Len(options) : i % 2 = 1 /\ options[i].dashes = 0

\* run(argv) ran the call command: argv asks for no help and starts with call.
IsCallCommand(argv) ==
    /\ argv # <<>>
    /\ argv[1].text = "call"
    /\ ~Includes(argv, "--help")
    /\ ~Includes(argv, "-h")

C27_CachedEtagIsNeverStale ==
    cachedEtag # Undefined => cachedEtag = computeEtag

\* C28: whenever a call changes the listing that listEnriched returns for
\* some context, the ETag read after the call differs from the ETag read before
\* it: a client revalidating with If-None-Match is never told 'not modified'
\* for a listing that has changed.
C28_ListingChangeChangesEtag ==
    [][\A context \in Contexts :
         LET before == IF enricher = Undefined THEN list
                       ELSE EnricherReturns(enricher, list, context)
             after == IF enricher' = Undefined THEN list'
                      ELSE EnricherReturns(enricher', list', context)
         IN  before # after => etag' # etag]_vars

\* The operation names a surface resolves to a descriptor in the current
\* state: those for which the surface's lookup does not fail.
LookupFailed(r) == r.threw /\ r.steps = <<"lookup">>

RestInvocable ==
    {n \in CallNames : ~LookupFailed(restBegin(n, request.raw))}
McpInvocable ==
    {n \in CallNames : mcpTool(n) # NoEndpoint}
CliInvocable ==
    {n \in CallNames :
        ~LookupFailed(cliBegin(<<WordToken(n), FlagToken(2, "input"),
                                 JsonToken(request.raw)>>))}
Registered == {n \in CallNames : has(n)}

\* C30: at any moment the operation names invocable through the REST route,
\* through the CLI and through a started MCP server are the names in the
\* registry: a descriptor registered after an adapter was created is invocable
\* through it.
C30_AdaptersFollowTheRegistry ==
    /\ RestInvocable = Registered
    /\ CliInvocable = Registered
    /\ mcpTools.started => McpInvocable = Registered

\* C29: one signalChanged call invokes exactly the listeners that were
\* subscribed when the call began, each once and in their order, also when a
\* listener subscribes or unsubscribes a listener during the notification.
C29_NotificationUsesSnapshot ==
    [][SignalToolsChanged =>
          [i \in 1..Len(notified') |-> notified'[i].listener] = listeners]_vars

====
